---------------------------- MODULE Spec2Model ----------------------------
(***************************************************************************)
(* A model of mindsdb/integrations/utilities/time_series_utils.py.         *)
(*                                                                         *)
(* Every function of the module is a small state machine: a Call action    *)
(* draws the arguments, the following actions are the statements of the    *)
(* body, and the last one sets ret (the returned value) or raised (the     *)
(* exception that leaves the function).  Four specifications are given,    *)
(* one per component:                                                      *)
(*   Spec         hierarchy builder and reconciler                         *)
(*   SpecConvert  wide table <-> nixtla table                              *)
(*   SpecFreq     infer_frequency                                          *)
(*   SpecScore    accuracy scorer                                          *)
(*                                                                         *)
(* A Python string is a sequence of fragments (characters, or the words    *)
(* "total", "BottomUp", "m1" ... that the code looks for), so that joining,*)
(* splitting, substring tests and replacement are computed, not assumed.   *)
(***************************************************************************)
EXTENDS Integers, Sequences, FiniteSets, TLC

VARIABLES
    pc, ret, raised,
    \* hierarchy builder and reconciler
    HierarchicalReconciliation, warnings, aggregate_calls, reconcile_calls,
    fn, col_list, spec, i, df_rows, forecast_df, reconciled_df, hierarchy_df, results_df,
    \* format converter
    df, settings_dict, nixtla_df, resampled_df, groups, group_col, return_df,
    \* frequency inferencer
    time_df, default, date_series, inferred_freq,
    \* accuracy scorer
    nixtla_results_df, accuracy_dict, best_model, current_accuracy, column, item

sharedVars == <<pc, ret, raised>>
hierVars == <<HierarchicalReconciliation, warnings, aggregate_calls, reconcile_calls,
              fn, col_list, spec, i, df_rows, forecast_df, reconciled_df, hierarchy_df,
              results_df>>
convVars == <<df, settings_dict, nixtla_df, resampled_df, groups, group_col, return_df>>
freqVars == <<time_df, default, date_series, inferred_freq>>
scoreVars == <<nixtla_results_df, accuracy_dict, best_model, current_accuracy, column, item>>
vars == <<sharedVars, hierVars, convVars, freqVars, scoreVars>>

-----------------------------------------------------------------------------
(* Bounds of the model *)

\* longest list of level names handed to spec_hierarchy_from_list
MaxLevels == 3
\* deepest hierarchy of a data frame handed to aggregate / reconcile
MaxDepth == 2
\* most leaf series of a hierarchy
MaxLeaves == 2
\* most columns of a reconciled table handed to get_results_from_reconciled_df
MaxCols == 4
\* most model columns of a results table handed to get_best_model_from_results_df
MaxModels == 2
\* the metric's values are the integers from -MaxScore to MaxScore
MaxScore == 2
\* most rows of a wide table handed to transform_to_nixtla_df
MaxRows == 2
\* longest value of a grouping column, in characters
MaxStrLen == 1
\* the order column holds the days 0..MaxDate
MaxDate == 2
\* the resampling frequency is 1..MaxFreq days
MaxFreq == 2
\* most rows of a table handed to infer_frequency
MaxTimeRows == 4
\* timestamps are the days 0..MaxDay
MaxDay == 4

-----------------------------------------------------------------------------
(* Python values *)

None == [kind |-> "None"]
Val(v) == [kind |-> "value", v |-> v]
NoException == "none"

(* Strings *)

Str(word) == <<word>>

RECURSIVE Join(_, _)
\* sep.join(parts)
Join(parts, sep) ==
    IF Len(parts) = 0 THEN <<>>
    ELSE IF Len(parts) = 1 THEN parts[1]
    ELSE parts[1] \o sep \o Join(Tail(parts), sep)

RECURSIVE Split(_, _)
\* s.split(sep) for a one-fragment separator: k separators give k+1 parts
Split(s, sep) ==
    LET hits == {k \in 1..Len(s) : s[k] = sep}
    IN  IF hits = {} THEN <<s>>
        ELSE LET k == CHOOSE h \in hits : \A g \in hits : h <= g
             IN  <<SubSeq(s, 1, k - 1)>> \o Split(SubSeq(s, k + 1, Len(s)), sep)

\* s.startswith-at-position test: pat occurs in s at position k
OccursAt(s, pat, k) ==
    /\ k + Len(pat) - 1 <= Len(s)
    /\ \A j \in 1..Len(pat) : s[k + j - 1] = pat[j]

\* pat in s
Contains(s, pat) == \E k \in 1..Len(s) : OccursAt(s, pat, k)

RECURSIVE ReplaceAll(_, _, _)
\* s.replace(pat, rep): every non-overlapping occurrence, left to right
ReplaceAll(s, pat, rep) ==
    IF Len(s) = 0 THEN <<>>
    ELSE IF OccursAt(s, pat, 1)
         THEN rep \o ReplaceAll(SubSeq(s, Len(pat) + 1, Len(s)), pat, rep)
         ELSE <<s[1]>> \o ReplaceAll(Tail(s), pat, rep)

(* Collections *)

RECURSIVE SeqsUpTo(_, _)
\* all sequences over S of length at most n
SeqsUpTo(S, n) ==
    IF n = 0 THEN {<<>>}
    ELSE LET shorter == SeqsUpTo(S, n - 1)
         IN  shorter \cup {Append(s, x) : s \in {t \in shorter : Len(t) = n - 1}, x \in S}

Range(s) == {s[k] : k \in 1..Len(s)}

NoRepeat(s) == \A a, b \in 1..Len(s) : a # b => s[a] # s[b]

RECURSIVE SetToSeq(_)
\* the rows of a table built from a set of keys, in the table's (fixed) row order
SetToSeq(S) ==
    IF S = {} THEN <<>>
    ELSE LET x == CHOOSE y \in S : TRUE IN <<x>> \o SetToSeq(S \ {x})

RECURSIVE SelectSeq2(_, _)
\* the rows of s whose key is in keep, in order
SelectSeq2(s, keep) ==
    IF Len(s) = 0 THEN <<>>
    ELSE (IF s[1] \in keep THEN <<s[1]>> ELSE <<>>) \o SelectSeq2(Tail(s), keep)

-----------------------------------------------------------------------------
(* The state of a component no call of which is in progress *)

HierIdle ==
    /\ warnings = 0 /\ aggregate_calls = 0 /\ reconcile_calls = 0
    /\ fn = "" /\ col_list = <<>> /\ spec = <<>> /\ i = 0 /\ df_rows = {}
    /\ forecast_df = <<>> /\ reconciled_df = <<>> /\ hierarchy_df = <<>>
    /\ results_df = [bound |-> FALSE]

ConvIdle ==
    /\ df = <<>> /\ settings_dict = <<>> /\ nixtla_df = <<>> /\ resampled_df = <<>>
    /\ groups = <<>> /\ group_col = "" /\ return_df = <<>>

FreqIdle ==
    /\ time_df = <<>> /\ default = "" /\ date_series = <<>> /\ inferred_freq = None

ScoreIdle ==
    /\ nixtla_results_df = <<>> /\ accuracy_dict = <<>> /\ best_model = None
    /\ current_accuracy = 0 /\ column = 0 /\ item = 0

-----------------------------------------------------------------------------
(* Hierarchy builder: spec_hierarchy_from_list, get_hierarchy_from_df *)

\* names a caller may give the levels of a hierarchy
LevelNames == {"region", "store", "sku"}
\* the grouping columns of a data frame handed to get_hierarchy_from_df, outermost first
DfLevels == <<"region", "store", "sku", "brand">>
\* the values a grouping column holds; "subtotal" is a value like any other
GroupValues == {Str("a"), <<"sub", "total">>}

\* the optional import at the top of the module: the class, or None
ImportOutcomes == {"class", "None"}

LibraryAssumed == TRUE

\* the test `HierarchicalReconciliation is not None`
LibraryAvailable == HierarchicalReconciliation # "None"

SpecEntryShort(cols, k) == <<"Total">> \o SubSeq(cols, 1, k)

\* spec.append(["Total"] + col_list[: i + 1]), i counted from 0
SpecEntry(cols, k) == <<"Total">> \o SubSeq(cols, 1, k + 1)

\* the value of a row (a tuple of grouping values) in a column of a spec path
PathValue(row, col) ==
    IF col = "Total" THEN Str("total")
    ELSE row[CHOOSE k \in 1..Len(DfLevels) : DfLevels[k] = col]

\* the identifier hierarchicalforecast gives the node of a row on a spec path
NodeId(row, path) == Join([k \in 1..Len(path) |-> PathValue(row, path[k])], Str("/"))

\* hierarchicalforecast.utils.aggregate: (Y_df, S, tags) of the rows under a spec
aggregate(rows, sp) ==
    LET level(k) == {NodeId(r, sp[k]) : r \in rows}
        nodes == UNION {level(k) : k \in 1..Len(sp)}
    IN  [Y_df |-> SetToSeq(nodes),
         S |-> [columns |-> SetToSeq(level(Len(sp))), index |-> SetToSeq(nodes)],
         tags |-> [k \in 1..Len(sp) |-> level(k)]]

\* the data frames of at most MaxLeaves leaf series under the first n grouping columns
RowsOfDepth(n) ==
    LET tuples == {t \in SeqsUpTo(GroupValues, n) : Len(t) = n}
    IN  {R \in SUBSET tuples : Cardinality(R) \in 1..MaxLeaves}

Call_spec_hierarchy_from_list ==
    /\ pc = "idle"
    /\ \E cols \in SeqsUpTo(LevelNames, MaxLevels) :
          /\ fn' = "spec_hierarchy_from_list"
          /\ col_list' = cols
    /\ spec' = <<<<"Total">>>>
    /\ i' = 0
    /\ pc' = "spec_loop"
    /\ UNCHANGED <<ret, raised, HierarchicalReconciliation, warnings, aggregate_calls,
                   reconcile_calls, df_rows, forecast_df, reconciled_df, hierarchy_df,
                   results_df, convVars, freqVars, scoreVars>>

\* one turn of the loop of spec_hierarchy_from_list
SpecAppend ==
    /\ pc = "spec_loop"
    /\ i < Len(col_list)
    /\ spec' = Append(spec, SpecEntry(col_list, i))
    /\ i' = i + 1
    /\ UNCHANGED <<pc, ret, raised, HierarchicalReconciliation, warnings, aggregate_calls,
                   reconcile_calls, fn, col_list, df_rows, forecast_df, reconciled_df,
                   hierarchy_df, results_df, convVars, freqVars, scoreVars>>

\* return spec: to the caller of the module, or to get_hierarchy_from_df
SpecReturn ==
    /\ pc = "spec_loop"
    /\ i = Len(col_list)
    /\ IF fn = "spec_hierarchy_from_list"
       THEN ret' = Val(spec) /\ pc' = "done"
       ELSE ret' = ret /\ pc' = "aggregate"
    /\ UNCHANGED <<raised, hierVars, convVars, freqVars, scoreVars>>

Call_get_hierarchy_from_df ==
    /\ pc = "idle"
    /\ fn' = "get_hierarchy_from_df"
    /\ \E n \in 0..MaxDepth : \E rows \in RowsOfDepth(n) :
          /\ df_rows' = rows
          /\ IF LibraryAvailable
             THEN /\ col_list' = SubSeq(DfLevels, 1, n)
                  /\ spec' = <<<<"Total">>>>
                  /\ pc' = "spec_loop"
                  /\ UNCHANGED <<ret, warnings>>
             ELSE /\ warnings' = warnings + 1
                  /\ ret' = None
                  /\ pc' = "done"
                  /\ UNCHANGED <<col_list, spec>>
    /\ i' = 0
    /\ UNCHANGED <<raised, HierarchicalReconciliation, aggregate_calls, reconcile_calls,
                   forecast_df, reconciled_df, hierarchy_df, results_df,
                   convVars, freqVars, scoreVars>>

\* nixtla_df, hier_df, hier_dict = aggregate(nixtla_df, spec); return them
CallAggregate ==
    /\ pc = "aggregate"
    /\ aggregate_calls' = aggregate_calls + 1
    /\ ret' = Val(aggregate(df_rows, spec))
    /\ pc' = "done"
    /\ UNCHANGED <<raised, HierarchicalReconciliation, warnings, reconcile_calls, fn,
                   col_list, spec, i, df_rows, forecast_df, reconciled_df, hierarchy_df,
                   results_df, convVars, freqVars, scoreVars>>

-----------------------------------------------------------------------------
(* Reconciler: reconcile_forecasts, get_results_from_reconciled_df *)

\* the name of DEFAULT_RECONCILER, which the engine appends to a reconciled column
Marker == Str("BottomUp")
ModelNames == {Str("m1"), Str("m2")}
ReconciledName(model) == model \o Str("/") \o Marker
\* the column names of a reconciled table handed to get_results_from_reconciled_df
ColumnNames == {Str("ds"), Str("y")} \cup ModelNames \cup {ReconciledName(Str("m1"))}

\* the test of lines 182-183: a column that is dropped if it comes first
IsUnreconciled(col) == col \notin {Str("ds"), Str("y")} /\ ~Contains(col, Marker)

\* the position of the column the loop of lines 181-185 stops at, 0 when it runs through
FirstUnreconciled(columns) ==
    LET hits == {k \in 1..Len(columns) : IsUnreconciled(columns[k])}
    IN  IF hits = {} THEN 0 ELSE CHOOSE h \in hits : \A g \in hits : h <= g

\* df.drop(columns[k], axis=1)
DropColumn(columns, k) == SubSeq(columns, 1, k - 1) \o SubSeq(columns, k + 1, Len(columns))

\* results_df.index.str.replace("total/", "")
StripTotal(id) == ReplaceAll(id, <<"total", "/">>, <<>>)

\* HierarchicalReconciliation.reconcile with BottomUp: the forecast's columns, then one
\* reconciled column per model, on the forecast's rows
HrecReconcileResult(forecast) ==
    LET models == SelectSeq(forecast.columns, LAMBDA c : c \in ModelNames)
    IN  [columns |-> forecast.columns \o [k \in 1..Len(models) |-> ReconciledName(models[k])],
         index |-> forecast.index]

\* the column lists of a reconciled table: ds and at least one forecast column
ReconciledColumnLists ==
    {c \in SeqsUpTo(ColumnNames, MaxCols) :
        /\ NoRepeat(c)
        /\ Str("ds") \in Range(c)
        /\ Range(c) \ {Str("ds"), Str("y")} # {}}

Call_reconcile_forecasts ==
    /\ pc = "idle"
    /\ fn' = "reconcile_forecasts"
    /\ \E n \in 1..MaxDepth : \E rows \in RowsOfDepth(n) :
       \E models \in {m \in SeqsUpTo(ModelNames, Cardinality(ModelNames)) :
                         Len(m) >= 1 /\ NoRepeat(m)} :
          LET h == aggregate(rows, [k \in 1..(n + 1) |-> SpecEntry(SubSeq(DfLevels, 1, n), k - 2)])
          IN  /\ df_rows' = rows
              /\ forecast_df' = [columns |-> <<Str("ds")>> \o models, index |-> h.Y_df]
              /\ hierarchy_df' = h.S
    /\ IF LibraryAvailable
       THEN pc' = "reconcile" /\ UNCHANGED <<ret, warnings>>
       ELSE warnings' = warnings + 1 /\ ret' = None /\ pc' = "done"
    /\ UNCHANGED <<raised, HierarchicalReconciliation, aggregate_calls, reconcile_calls,
                   col_list, spec, i, reconciled_df, results_df,
                   convVars, freqVars, scoreVars>>

\* reconciled_df = hrec.reconcile(Y_hat_df=forecast_df, ...)
HrecReconcile ==
    /\ pc = "reconcile"
    /\ reconcile_calls' = reconcile_calls + 1
    /\ reconciled_df' = HrecReconcileResult(forecast_df)
    /\ pc' = "drop_columns"
    /\ UNCHANGED <<ret, raised, HierarchicalReconciliation, warnings, aggregate_calls, fn,
                   col_list, spec, i, df_rows, forecast_df, hierarchy_df, results_df,
                   convVars, freqVars, scoreVars>>

Call_get_results_from_reconciled_df ==
    /\ pc = "idle"
    /\ fn' = "get_results_from_reconciled_df"
    /\ \E n \in 1..MaxDepth : \E rows \in RowsOfDepth(n) :
       \E columns \in ReconciledColumnLists :
          LET h == aggregate(rows, [k \in 1..(n + 1) |-> SpecEntry(SubSeq(DfLevels, 1, n), k - 2)])
          IN  /\ df_rows' = rows
              /\ reconciled_df' = [columns |-> columns, index |-> h.Y_df]
              /\ hierarchy_df' = h.S
    /\ pc' = "drop_columns"
    /\ UNCHANGED <<ret, raised, HierarchicalReconciliation, warnings, aggregate_calls,
                   reconcile_calls, col_list, spec, i, forecast_df, results_df,
                   convVars, freqVars, scoreVars>>

\* the loop of lines 181-185: results_df is assigned only where the loop breaks
DropUnreconciledColumn ==
    /\ pc = "drop_columns"
    /\ LET k == FirstUnreconciled(reconciled_df.columns)
       IN  results_df' =
             IF k = 0 THEN [bound |-> FALSE]
             ELSE [bound |-> TRUE, columns |-> DropColumn(reconciled_df.columns, k),
                   index |-> reconciled_df.index]
    /\ pc' = "drop_rows"
    /\ UNCHANGED <<ret, raised, HierarchicalReconciliation, warnings, aggregate_calls,
                   reconcile_calls, fn, col_list, spec, i, df_rows, forecast_df,
                   reconciled_df, hierarchy_df, convVars, freqVars, scoreVars>>

\* lines 188-189: reading results_df when the loop never assigned it raises
DropHigherLevelRows ==
    /\ pc = "drop_rows"
    /\ IF results_df.bound
       THEN /\ results_df' = [results_df EXCEPT
                   !.index = SelectSeq2(results_df.index, Range(hierarchy_df.columns))]
            /\ pc' = "strip_prefix"
            /\ UNCHANGED raised
       ELSE /\ raised' = "UnboundLocalError"
            /\ pc' = "done"
            /\ UNCHANGED results_df
    /\ UNCHANGED <<ret, HierarchicalReconciliation, warnings, aggregate_calls,
                   reconcile_calls, fn, col_list, spec, i, df_rows, forecast_df,
                   reconciled_df, hierarchy_df, convVars, freqVars, scoreVars>>

\* lines 190-191
StripTotalPrefix ==
    /\ pc = "strip_prefix"
    /\ results_df' = [results_df EXCEPT
           !.index = [k \in 1..Len(results_df.index) |-> StripTotal(results_df.index[k])]]
    /\ ret' = Val(results_df')
    /\ pc' = "done"
    /\ UNCHANGED <<raised, HierarchicalReconciliation, warnings, aggregate_calls,
                   reconcile_calls, fn, col_list, spec, i, df_rows, forecast_df,
                   reconciled_df, hierarchy_df, convVars, freqVars, scoreVars>>

Init ==
    /\ pc = "idle" /\ ret = None /\ raised = NoException
    /\ HierarchicalReconciliation \in ImportOutcomes
    /\ HierIdle /\ ConvIdle /\ FreqIdle /\ ScoreIdle

Next ==
    \/ Call_spec_hierarchy_from_list
    \/ SpecAppend
    \/ SpecReturn
    \/ Call_get_hierarchy_from_df
    \/ CallAggregate
    \/ Call_reconcile_forecasts
    \/ HrecReconcile
    \/ Call_get_results_from_reconciled_df
    \/ DropUnreconciledColumn
    \/ DropHigherLevelRows
    \/ StripTotalPrefix

Spec == Init /\ [][Next]_vars

-----------------------------------------------------------------------------
(* Properties of the hierarchy builder and the reconciler (specification Spec) *)


Returned(f) == pc = "done" /\ fn = f

\* C2: spec_hierarchy_from_list of [L1..Ln] returns n+1 paths, root first, the i-th
\* (from 0) being ["Total", L1, ..., Li]; the empty list gives [["Total"]]; each path
\* extends the one before it by exactly one level.
C2_SpecIsCumulativePaths ==
    Returned("spec_hierarchy_from_list") =>
        /\ raised = NoException
        /\ ret.kind = "value"
        /\ Len(ret.v) = Len(col_list) + 1
        /\ ret.v[1] = <<"Total">>
        /\ \A k \in 0..Len(col_list) :
              /\ Len(ret.v[k + 1]) = k + 1
              /\ ret.v[k + 1][1] = "Total"
              /\ \A j \in 1..k : ret.v[k + 1][j + 1] = col_list[j]
        /\ \A k \in 1..Len(col_list) :
              ret.v[k + 1] = Append(ret.v[k], col_list[k])

C2_Witness ==
    /\ Returned("spec_hierarchy_from_list")
    /\ col_list = <<"region", "store">>
    /\ ret.v = << <<"Total">>, <<"Total", "region">>, <<"Total", "region", "store">> >>

\* C3: get_results_from_reconciled_df completes on every reconciled table, and its
\* result has the input's columns but the first one that is neither ds nor y and
\* does not contain "BottomUp" (nothing to drop when every forecast column has it).
C3_DropsFirstUnreconciledAndCompletes ==
    Returned("get_results_from_reconciled_df") =>
        LET cols == reconciled_df.columns
            raw == {k \in 1..Len(cols) :
                      cols[k] # Str("ds") /\ cols[k] # Str("y") /\ ~Contains(cols[k], Marker)}
        IN  /\ raised = NoException
            /\ ret.kind = "value"
            /\ IF raw = {} THEN ret.v.columns = cols
               ELSE \E k \in raw :
                      /\ \A j \in raw : k <= j
                      /\ ret.v.columns = SubSeq(cols, 1, k - 1) \o SubSeq(cols, k + 1, Len(cols))

\* the leading "total/" of an identifier removed, and nothing else
WithoutLeadingTotal(id) ==
    IF Len(id) >= 2 /\ id[1] = "total" /\ id[2] = "/" THEN SubSeq(id, 3, Len(id)) ELSE id

\* C4: get_results_from_reconciled_df keeps exactly the rows of the leaves, and each
\* kept identifier is the input identifier without its leading "total/": the leaf's
\* own name, distinct leaves staying distinct.
C4_KeepsLeavesAndStripsLeadingTotal ==
    (pc = "done" /\ fn \in {"get_results_from_reconciled_df", "reconcile_forecasts"}
        /\ ret.kind = "value") =>
        LET leaves == Range(hierarchy_df.columns)
            kept == SelectSeq(reconciled_df.index, LAMBDA id : id \in leaves)
        IN  /\ Len(ret.v.index) = Len(kept)
            /\ \A k \in 1..Len(kept) : ret.v.index[k] = WithoutLeadingTotal(kept[k])
            /\ \A a, b \in 1..Len(kept) : kept[a] # kept[b] => ret.v.index[a] # ret.v.index[b]
            /\ \A r \in df_rows : Join(r, Str("/")) \in Range(ret.v.index)

\* C8: without the library get_hierarchy_from_df and reconcile_forecasts return None,
\* raise nothing, log one warning and never call aggregate or reconcile; with it they
\* log nothing and return what is built from the external routine's output.
C8_AbsentLibraryWarnsOnce ==
    /\ HierarchicalReconciliation = "None" =>
          /\ aggregate_calls = 0 /\ reconcile_calls = 0
          /\ warnings <= 1
    /\ HierarchicalReconciliation # "None" => warnings = 0
    /\ (pc = "done" /\ fn \in {"get_hierarchy_from_df", "reconcile_forecasts"}) =>
          /\ raised = NoException
          /\ IF HierarchicalReconciliation = "None"
             THEN ret = None /\ warnings = 1
             ELSE /\ ret.kind = "value"
                  /\ fn = "get_hierarchy_from_df" =>
                        /\ aggregate_calls = 1 /\ reconcile_calls = 0
                        /\ ret.v = aggregate(df_rows, spec)
                  /\ fn = "reconcile_forecasts" =>
                        /\ reconcile_calls = 1 /\ aggregate_calls = 0
                        /\ reconciled_df = HrecReconcileResult(forecast_df)
                        /\ Range(ret.v.columns) \subseteq Range(reconciled_df.columns)
                        /\ ReconciledName(forecast_df.columns[2]) \in Range(ret.v.columns)
                        /\ Len(ret.v.index) = Cardinality(df_rows)

C8_Witness ==
    /\ pc = "done" /\ fn = "reconcile_forecasts"
    /\ HierarchicalReconciliation = "None"
    /\ warnings = 1 /\ ret = None

-----------------------------------------------------------------------------
(* Accuracy scorer: get_model_accuracy_dict, get_best_model_from_results_df *)

\* the columns get_model_accuracy_dict skips
ReservedColumns == {"unique_id", "ds", "y", "cutoff"}
\* the identifier columns a results table starts with (cutoff: cross-validation)
ReservedLayouts == {<<"unique_id", "ds", "y">>, <<"unique_id", "ds", "cutoff", "y">>}
ForecastColumns == {"m1", "m2", "m3"}
\* metric(df["y"], df[column]): a column stands for the score the metric gives it
Scores == (0 - MaxScore)..MaxScore

\* the results tables: identifier columns, then at most MaxModels scored model columns
ResultTables ==
    {[k \in 1..Len(layout) |-> [name |-> layout[k], score |-> 0]] \o models :
        layout \in ReservedLayouts,
        models \in {m \in SeqsUpTo([name : ForecastColumns, score : Scores], MaxModels) :
                      NoRepeat([k \in 1..Len(m) |-> m[k].name])}}

ReplacesOnTie(accuracy, current) == accuracy >= current

\* the test of line 121
Replaces(accuracy, current) == accuracy > current

Call_get_best_model_from_results_df ==
    /\ pc = "idle"
    /\ nixtla_results_df' \in ResultTables
    /\ best_model' = None
    /\ current_accuracy' = 0
    /\ accuracy_dict' = <<>>
    /\ column' = 1
    /\ pc' = "accuracy_loop"
    /\ UNCHANGED <<ret, raised, item, hierVars, convVars, freqVars>>

\* one turn of the loop of get_model_accuracy_dict
AccuracyStep ==
    /\ pc = "accuracy_loop"
    /\ column <= Len(nixtla_results_df)
    /\ LET c == nixtla_results_df[column]
       IN  accuracy_dict' =
             IF c.name \in ReservedColumns THEN accuracy_dict
             ELSE Append(accuracy_dict, [model |-> c.name, accuracy |-> c.score])
    /\ column' = column + 1
    /\ UNCHANGED <<sharedVars, nixtla_results_df, best_model, current_accuracy, item,
                   hierVars, convVars, freqVars>>

\* return accuracy_dict, and enter the loop of get_best_model_from_results_df
AccuracyReturn ==
    /\ pc = "accuracy_loop"
    /\ column > Len(nixtla_results_df)
    /\ item' = 1
    /\ pc' = "best_loop"
    /\ UNCHANGED <<ret, raised, nixtla_results_df, accuracy_dict, best_model,
                   current_accuracy, column, hierVars, convVars, freqVars>>

\* one turn of the loop over accuracy_dict.items()
BestStep ==
    /\ pc = "best_loop"
    /\ item <= Len(accuracy_dict)
    /\ LET e == accuracy_dict[item]
       IN  IF Replaces(e.accuracy, current_accuracy)
           THEN best_model' = Val(e.model) /\ current_accuracy' = e.accuracy
           ELSE UNCHANGED <<best_model, current_accuracy>>
    /\ item' = item + 1
    /\ UNCHANGED <<sharedVars, nixtla_results_df, accuracy_dict, column,
                   hierVars, convVars, freqVars>>

BestReturn ==
    /\ pc = "best_loop"
    /\ item > Len(accuracy_dict)
    /\ ret' = best_model
    /\ pc' = "done"
    /\ UNCHANGED <<raised, scoreVars, hierVars, convVars, freqVars>>

NextScore ==
    \/ Call_get_best_model_from_results_df
    \/ AccuracyStep
    \/ AccuracyReturn
    \/ BestStep
    \/ BestReturn

SpecScore == Init /\ [][NextScore]_vars

-----------------------------------------------------------------------------
(* Frequency inferencer: infer_frequency *)

(***************************************************************************)
(* A cell of the time column is a timestamp (kind "ts", v its day), a      *)
(* string that is no date (kind "str") or a boolean (kind "bool").  Day 0  *)
(* is a Monday in the middle of a month and the days stay within one       *)
(* week, where none of pandas' calendar rules (business day, weekly,       *)
(* month- or year-anchored) applies: pd.infer_freq then answers with a     *)
(* multiple of a day when the timestamps are evenly spaced, and with None  *)
(* when they are not.                                                      *)
(***************************************************************************)
TimeCells ==
    {[kind |-> "ts", v |-> d] : d \in 0..MaxDay}
        \cup {[kind |-> "str", v |-> 0], [kind |-> "bool", v |-> 0]}

Defaults == {"D", "M"}

\* df.sort_values(by=time_column): values of different types do not compare
SortRaises(cells) == \E a, b \in 1..Len(cells) : cells[a].kind # cells[b].kind

sort_values(cells) == SortSeq(cells, LAMBDA a, b : a.v < b.v)

\* pd.to_datetime: booleans are a TypeError, strings that are no dates a ValueError
ToDatetimeError(cells) ==
    IF \E k \in 1..Len(cells) : cells[k].kind = "bool" THEN "TypeError"
    ELSE IF \E k \in 1..Len(cells) : cells[k].kind = "str" THEN "ValueError"
    ELSE NoException

to_datetime(cells) == [k \in 1..Len(cells) |-> cells[k].v]

RECURSIVE unique(_)
\* Series.unique(): the first occurrence of each value, in order of appearance
unique(s) ==
    IF Len(s) = 0 THEN <<>>
    ELSE LET rest == unique(SubSeq(s, 1, Len(s) - 1))
         IN  IF s[Len(s)] \in Range(rest) THEN rest ELSE Append(rest, s[Len(s)])

\* np.diff
diff(s) == [k \in 1..(Len(s) - 1) |-> s[k + 1] - s[k]]

\* to_offset(pd.to_timedelta(delta)).freqstr for a delta of whole days
freqstr(days) == IF days = 1 THEN "D" ELSE ToString(days) \o "D"

\* pd.infer_freq on at least three increasing days within the week
infer_freq(dates) ==
    IF Cardinality(Range(diff(dates))) = 1 THEN Val(freqstr(diff(dates)[1])) ELSE None

\* np.unique(x, return_counts=True): the sorted distinct values, and how often each occurs
np_unique(x) ==
    LET values == SortSeq(SetToSeq(Range(x)), LAMBDA a, b : a < b)
    IN  [values |-> values,
         counts |-> [k \in 1..Len(values) |->
                        Cardinality({j \in 1..Len(x) : x[j] = values[k]})]]

argmax_last(counts) ==
    CHOOSE k \in 1..Len(counts) :
        /\ \A j \in 1..Len(counts) : counts[j] <= counts[k]
        /\ \A j \in 1..Len(counts) : counts[j] = counts[k] => j <= k

\* np.argmax: the first position of the largest count
argmax(counts) ==
    CHOOSE k \in 1..Len(counts) :
        /\ \A j \in 1..Len(counts) : counts[j] <= counts[k]
        /\ \A j \in 1..Len(counts) : counts[j] = counts[k] => k <= j

Call_infer_frequency ==
    /\ pc = "idle"
    /\ time_df' \in SeqsUpTo(TimeCells, MaxTimeRows)
    /\ default' \in Defaults
    /\ pc' = "to_datetime"
    /\ UNCHANGED <<ret, raised, date_series, inferred_freq, hierVars, convVars, scoreVars>>

\* line 92; a TypeError is caught at line 98, any other exception leaves the function
SortAndConvert ==
    /\ pc = "to_datetime"
    /\ IF SortRaises(time_df) \/ ToDatetimeError(sort_values(time_df)) = "TypeError"
       THEN /\ inferred_freq' = Val(default)
            /\ pc' = "return"
            /\ UNCHANGED <<date_series, raised>>
       ELSE IF ToDatetimeError(sort_values(time_df)) # NoException
       THEN /\ raised' = ToDatetimeError(sort_values(time_df))
            /\ pc' = "done"
            /\ UNCHANGED <<date_series, inferred_freq>>
       ELSE /\ date_series' = unique(to_datetime(sort_values(time_df)))
            /\ pc' = "infer_freq"
            /\ UNCHANGED <<inferred_freq, raised>>
    /\ UNCHANGED <<ret, time_df, default, hierVars, convVars, scoreVars>>

\* line 93: pd.infer_freq raises ValueError on fewer than three dates
InferFreq ==
    /\ pc = "infer_freq"
    /\ IF Len(date_series) < 3
       THEN /\ raised' = "ValueError"
            /\ pc' = "done"
            /\ UNCHANGED inferred_freq
       ELSE /\ inferred_freq' = infer_freq(date_series)
            /\ pc' = IF inferred_freq' = None THEN "delta_mode" ELSE "return"
            /\ UNCHANGED raised
    /\ UNCHANGED <<ret, time_df, default, date_series, hierVars, convVars, scoreVars>>

\* lines 95-97
DeltaMode ==
    /\ pc = "delta_mode"
    /\ LET u == np_unique(diff(date_series))
           delta == u.values[argmax(u.counts)]
       IN  inferred_freq' = Val(freqstr(delta))
    /\ pc' = "return"
    /\ UNCHANGED <<ret, raised, time_df, default, date_series, hierVars, convVars, scoreVars>>

\* line 100
ReturnFrequency ==
    /\ pc = "return"
    /\ ret' = IF inferred_freq # None THEN inferred_freq ELSE Val(default)
    /\ pc' = "done"
    /\ UNCHANGED <<raised, freqVars, hierVars, convVars, scoreVars>>

NextFreq ==
    \/ Call_infer_frequency
    \/ SortAndConvert
    \/ InferFreq
    \/ DeltaMode
    \/ ReturnFrequency

SpecFreq == Init /\ [][NextFreq]_vars

\* C6: infer_frequency never raises: whatever the table and the default, it returns
\* a value, the default where sorting, conversion, inference or the fallback fails.
C6_InferFrequencyNeverRaises ==
    pc = "done" =>
        /\ raised = NoException
        /\ ret.kind = "value"
        /\ (\/ \E k \in 1..Len(time_df) : time_df[k].kind # "ts"
            \/ Cardinality({time_df[k].v : k \in 1..Len(time_df)}) < 3) => ret = Val(default)

\* the distinct days of the time column, and the gaps between neighbours among them
DaysOf(cells) == {cells[k].v : k \in 1..Len(cells)}
GapStarts(T, d) == {a \in T : a + d \in T /\ \A c \in T : ~(a < c /\ c < a + d)}
Gaps(T) == {d \in 1..MaxDay : GapStarts(T, d) # {}}

\* C10: on valid timestamps for which pd.infer_freq finds nothing, infer_frequency
\* returns the period string of the most frequent gap between neighbouring distinct
\* timestamps, the smallest of the most frequent ones; daily data with one gap gives "D".
C10_FallbackIsSmallestModeOfGaps ==
    (/\ pc = "done"
     /\ \A k \in 1..Len(time_df) : time_df[k].kind = "ts"
     /\ Cardinality(DaysOf(time_df)) >= 3
     /\ Cardinality(Gaps(DaysOf(time_df))) > 1) =>
        LET T == DaysOf(time_df)
            n(d) == Cardinality(GapStarts(T, d))
        IN  /\ raised = NoException
            /\ \E d \in Gaps(T) :
                  /\ \A e \in Gaps(T) : n(e) <= n(d)
                  /\ \A e \in Gaps(T) : n(e) = n(d) => d <= e
                  /\ ret = Val(IF d = 1 THEN "D" ELSE ToString(d) \o "D")
            /\ (n(1) >= 2 /\ Cardinality(Gaps(T)) = 2
                    /\ \A e \in Gaps(T) \ {1} : n(e) = 1) => ret = Val("D")

\* unsorted days 4, 1, 0, 1: the duplicate 1 counts once, the gaps 1 and 3 tie
C10_Witness ==
    /\ pc = "done"
    /\ time_df = <<[kind |-> "ts", v |-> 4], [kind |-> "ts", v |-> 1],
                   [kind |-> "ts", v |-> 0], [kind |-> "ts", v |-> 1]>>
    /\ date_series = <<0, 1, 4>>
    /\ infer_freq(date_series) = None
    /\ ret = Val("D")

-----------------------------------------------------------------------------
(* Format converter: transform_to_nixtla_df, get_results_from_nixtla_df *)

(***************************************************************************)
(* A table is [columns, rows]: the column names in order, and the rows,    *)
(* each a function from the column names to values.  The wide table has    *)
(* the grouping columns region and store, the order column date and the    *)
(* target sales.  The value of a grouping column is a string over the      *)
(* characters "a" and "/"; a number is a fraction [num, den], NaN where    *)
(* pandas has no value.                                                    *)
(***************************************************************************)
WideColumns == <<"region", "store", "date", "sales">>
GroupStrings == SeqsUpTo({"a", "/"}, MaxStrLen)
NaN == [nan |-> TRUE]
Number(n) == [num |-> n, den |-> 1]
TargetValues == {Number(1), Number(3)}

WideRows == [region : GroupStrings, store : GroupStrings, date : 0..MaxDate, sales : TargetValues]

\* the group_by a caller configures: none (empty, or the sentinel), one column, two
GroupBys == {<<>>, <<"__group_by">>, <<"region">>, <<"region", "store">>}

Settings ==
    [group_by : GroupBys, order_by : {"date"}, target : {"sales"}, frequency : 1..MaxFreq]

(* pandas operations on tables *)

\* df.rename(m, axis=1) for a dict m given as a function; names m does not hold stay
Rename(t, m) ==
    LET new(c) == IF c \in DOMAIN m THEN m[c] ELSE c
        cols == [k \in 1..Len(t.columns) |-> new(t.columns[k])]
    IN  [columns |-> cols,
         rows |-> [k \in 1..Len(t.rows) |->
                     [c \in Range(cols) |->
                        t.rows[k][CHOOSE old \in Range(t.columns) : new(old) = c]]]]

\* the values of a column, row by row
Column(t, name) == [k \in 1..Len(t.rows) |-> t.rows[k][name]]

\* df[name] = values: a new column is added last, an old one is overwritten
Assign(t, name, values) ==
    [columns |-> IF name \in Range(t.columns) THEN t.columns ELSE Append(t.columns, name),
     rows |-> [k \in 1..Len(t.rows) |->
                 [c \in Range(t.columns) \cup {name} |->
                    IF c = name THEN values[k] ELSE t.rows[k][c]]]]

\* df[cols]
Select(t, cols) ==
    [columns |-> cols,
     rows |-> [k \in 1..Len(t.rows) |-> [c \in Range(cols) |-> t.rows[k][c]]]]

\* df.drop([name], axis=1)
Drop(t, name) == Select(t, SelectSeq(t.columns, LAMBDA c : c # name))

\* the key of a row under groupby(by=cols)
GroupKey(row, cols) == [k \in 1..Len(cols) |-> row[cols[k]]]

Ord(ch) == IF ch = "/" THEN 47 ELSE 97

RECURSIVE StrLess(_, _)
\* a < b for Python strings
StrLess(a, b) ==
    IF Len(b) = 0 THEN FALSE
    ELSE IF Len(a) = 0 THEN TRUE
    ELSE IF a[1] # b[1] THEN Ord(a[1]) < Ord(b[1])
    ELSE StrLess(Tail(a), Tail(b))

RECURSIVE KeyLess(_, _)
\* a < b for tuples of strings
KeyLess(a, b) ==
    IF Len(b) = 0 THEN FALSE
    ELSE IF Len(a) = 0 THEN TRUE
    ELSE IF a[1] # b[1] THEN StrLess(a[1], b[1])
    ELSE KeyLess(Tail(a), Tail(b))

\* the keys df.groupby(by=cols) iterates over: sorted
GroupKeys(t, cols) ==
    SortSeq(SetToSeq({GroupKey(t.rows[k], cols) : k \in 1..Len(t.rows)}), KeyLess)

RECURSIVE Sum(_)
Sum(ns) == IF Len(ns) = 0 THEN 0 ELSE ns[1].num + Sum(Tail(ns))

Gcd(a, b) == CHOOSE g \in 1..a : a % g = 0 /\ b % g = 0 /\
                \A h \in 1..a : (a % h = 0 /\ b % h = 0) => h <= g

\* Series.mean() of whole numbers: NaN of none
Mean(ns) ==
    IF Len(ns) = 0 THEN NaN
    ELSE LET g == Gcd(Len(ns), Sum(ns))
         IN  [num |-> Sum(ns) \div g, den |-> Len(ns) \div g]

\* lines 42-46: the rows of one group resampled at freq days, the bins counted from
\* the group's first day, every bin from the first to the last a row
ResampleGroupRows(t, cfg, key) ==
    LET members == SelectSeq(t.rows, LAMBDA r : GroupKey(r, cfg.group_by) = key)
        days == {members[k][cfg.order_by] : k \in 1..Len(members)}
        first == CHOOSE d \in days : \A e \in days : d <= e
        last == CHOOSE d \in days : \A e \in days : e <= d
        bins == ((last - first) \div cfg.frequency) + 1
        start(b) == first + (b - 1) * cfg.frequency
        inBin(b) == SelectSeq(members, LAMBDA r :
                       start(b) <= r[cfg.order_by] /\ r[cfg.order_by] < start(b) + cfg.frequency)
        targets(b) == [k \in 1..Len(inBin(b)) |-> inBin(b)[k][cfg.target]]
    IN  [b \in 1..bins |->
            [c \in Range(t.columns) |->
                IF c = cfg.order_by THEN start(b)
                ELSE IF c = cfg.target THEN Mean(targets(b))
                ELSE IF c \in Range(cfg.group_by)
                     THEN key[CHOOSE k \in 1..Len(cfg.group_by) : cfg.group_by[k] = c]
                ELSE NaN]]


\* the test of line 40
HasGrouping(cfg) == Len(cfg.group_by) > 0 /\ cfg.group_by # <<"__group_by">>

Call_transform_to_nixtla_df ==
    /\ pc = "idle"
    /\ \E rows \in SeqsUpTo(WideRows, MaxRows) \ {<<>>} : \E cfg \in Settings :
          /\ df' = [columns |-> WideColumns, rows |-> rows]
          /\ settings_dict' = cfg
          /\ nixtla_df' = df'
          /\ resampled_df' = [columns |-> WideColumns, rows |-> <<>>]
          /\ IF HasGrouping(cfg)
             THEN groups' = GroupKeys(df', cfg.group_by) /\ pc' = "resample"
             ELSE groups' = <<>> /\ pc' = "unique_id"
    /\ UNCHANGED <<ret, raised, group_col, return_df, hierVars, freqVars, scoreVars>>

\* one turn of the loop of lines 41-47
ResampleGroup ==
    /\ pc = "resample"
    /\ groups # <<>>
    /\ resampled_df' = [resampled_df EXCEPT
           !.rows = @ \o ResampleGroupRows(nixtla_df, settings_dict, Head(groups))]
    /\ groups' = Tail(groups)
    /\ UNCHANGED <<sharedVars, df, settings_dict, nixtla_df, group_col, return_df,
                   hierVars, freqVars, scoreVars>>

\* line 48
EndResample ==
    /\ pc = "resample"
    /\ groups = <<>>
    /\ nixtla_df' = resampled_df
    /\ pc' = "unique_id"
    /\ UNCHANGED <<ret, raised, df, settings_dict, resampled_df, groups, group_col,
                   return_df, hierVars, freqVars, scoreVars>>

\* lines 51-57: group_by[0] of an empty list is an IndexError
BuildUniqueId ==
    /\ pc = "unique_id"
    /\ LET group_by == settings_dict.group_by
       IN  IF Len(group_by) > 1
           THEN /\ nixtla_df' = Assign(nixtla_df, "unique_id",
                                      [k \in 1..Len(nixtla_df.rows) |->
                                         Join(GroupKey(nixtla_df.rows[k], group_by), Str("/"))])
                /\ group_col' = "ignore this"
                /\ pc' = "rename"
                /\ UNCHANGED raised
           ELSE IF Len(group_by) = 0
           THEN /\ raised' = "IndexError"
                /\ pc' = "transform_done"
                /\ UNCHANGED <<nixtla_df, group_col>>
           ELSE /\ group_col' = group_by[1]
                /\ pc' = "rename"
                /\ UNCHANGED <<nixtla_df, raised>>
    /\ UNCHANGED <<ret, df, settings_dict, resampled_df, groups, return_df,
                   hierVars, freqVars, scoreVars>>

\* the dict of line 61, for the names that differ; a later key wins over an earlier
RenameDict(cfg, gcol) ==
    [c \in {cfg.target, cfg.order_by, gcol} |->
        IF c = gcol THEN "unique_id" ELSE IF c = cfg.order_by THEN "ds" ELSE "y"]

\* lines 60-70
RenameAndReturn ==
    /\ pc = "rename"
    /\ LET renamed == Rename(nixtla_df, RenameDict(settings_dict, group_col))
           withId == IF "unique_id" \in Range(renamed.columns) THEN renamed
                     ELSE Assign(renamed, "unique_id",
                                 [k \in 1..Len(renamed.rows) |-> Str("1")])
       IN  nixtla_df' = Select(withId, <<"unique_id", "ds", "y">>)
    /\ ret' = Val(nixtla_df')
    /\ pc' = "transform_done"
    /\ UNCHANGED <<raised, df, settings_dict, resampled_df, groups, group_col, return_df,
                   hierVars, freqVars, scoreVars>>

\* x.split("/")[i], i counted from 0
SplitPart(x, k) == Split(x, "/")[k + 1]

\* get_results_from_nixtla_df applied to what transform_to_nixtla_df returned
Call_get_results_from_nixtla_df ==
    /\ pc = "transform_done"
    /\ raised = NoException
    /\ LET group_by == settings_dict.group_by
           RECURSIVE AssignGroups(_, _)
           AssignGroups(t, k) ==
               IF k > Len(group_by) THEN t
               ELSE AssignGroups(
                        Assign(t, group_by[k],
                               [r \in 1..Len(t.rows) |->
                                  SplitPart(t.rows[r]["unique_id"], k - 1)]),
                        k + 1)
           restored ==
               IF Len(group_by) > 1 THEN AssignGroups(ret.v, 1)
               ELSE IF Len(group_by) > 0
                    THEN Assign(ret.v, group_by[1], Column(ret.v, "unique_id"))
               ELSE ret.v
       IN  return_df' = Rename(Drop(restored, "unique_id"),
                               [c \in {"ds"} |-> settings_dict.order_by])
    /\ ret' = Val(return_df')
    /\ pc' = "done"
    /\ UNCHANGED <<raised, df, settings_dict, nixtla_df, resampled_df, groups, group_col,
                   hierVars, freqVars, scoreVars>>

NextConvert ==
    \/ Call_transform_to_nixtla_df
    \/ ResampleGroup
    \/ EndResample
    \/ BuildUniqueId
    \/ RenameAndReturn
    \/ Call_get_results_from_nixtla_df

SpecConvert == Init /\ [][NextConvert]_vars

-----------------------------------------------------------------------------
(* Properties of the format converter (specification SpecConvert) *)

\* the rows of the table transform_to_nixtla_df works on, before unique_id is built:
\* row k of its result and of the round trip is row k of this table
SourceRows == IF HasGrouping(settings_dict) THEN resampled_df.rows ELSE df.rows

\* C1: with N >= 1 grouping columns, get_results_from_nixtla_df of transform_to_nixtla_df
\* has no unique_id column, has the order column under its own name, and every row
\* has in each grouping column the value of the series it comes from.
C1_RoundTripRestoresGroups ==
    (pc = "done" /\ HasGrouping(settings_dict)) =>
        /\ raised = NoException
        /\ "unique_id" \notin Range(return_df.columns)
        /\ settings_dict.order_by \in Range(return_df.columns)
        /\ "ds" \notin Range(return_df.columns)
        /\ Len(return_df.rows) = Len(SourceRows)
        /\ \A k \in 1..Len(return_df.rows) :
              /\ return_df.rows[k][settings_dict.order_by] = SourceRows[k][settings_dict.order_by]
              /\ \A c \in Range(settings_dict.group_by) :
                    return_df.rows[k][c] = SourceRows[k][c]

\* C7: transform_to_nixtla_df returns a table whose unique_id is the grouping values
\* joined with "/" for two or more grouping columns, the value itself for one, and "1"
\* when there is no grouping: group_by empty, or the sentinel ['__group_by'].
C7_UniqueIdByGrouping ==
    pc = "transform_done" =>
        LET group_by == settings_dict.group_by
        IN  /\ raised = NoException
            /\ ret.kind = "value"
            /\ ret.v.columns = <<"unique_id", "ds", "y">>
            /\ Len(ret.v.rows) = Len(SourceRows)
            /\ \A k \in 1..Len(ret.v.rows) :
                  ret.v.rows[k]["unique_id"] =
                     IF ~HasGrouping(settings_dict) THEN Str("1")
                     ELSE IF Len(group_by) = 1 THEN SourceRows[k][group_by[1]]
                     ELSE SourceRows[k][group_by[1]] \o Str("/") \o SourceRows[k][group_by[2]]

\* C9: in every table transform_to_nixtla_df returns, rows with one unique_id belong to
\* one series (one tuple of grouping values), and within a unique_id ds strictly
\* increases in row order, whether the table is grouped or not.
C9_NormalizedTableInvariant ==
    (pc = "transform_done" /\ raised = NoException) =>
        \A a, b \in 1..Len(ret.v.rows) :
            (a < b /\ ret.v.rows[a]["unique_id"] = ret.v.rows[b]["unique_id"]) =>
                /\ HasGrouping(settings_dict) =>
                      GroupKey(SourceRows[a], settings_dict.group_by)
                          = GroupKey(SourceRows[b], settings_dict.group_by)
                /\ ret.v.rows[a]["ds"] < ret.v.rows[b]["ds"]

=============================================================================
